---- MODULE Spec2Model ----
(***************************************************************************)
(* Mass-balance calculator for fruit pulp (src/App.py).                    *)
(*                                                                         *)
(* The program computes with Python floats, i.e. IEEE-754 binary64 with    *)
(* round-to-nearest, ties-to-even.  The arithmetic below is that           *)
(* arithmetic, bit for bit: a float is a sign, a 53-bit significand and a  *)
(* binary exponent, and every operation rounds the exact result once.      *)
(* Significands do not fit the model checker's integers, so naturals are   *)
(* little-endian sequences of limbs in base 2^15.  The exponent range is   *)
(* not bounded: overflow to infinity and subnormals are not modelled (they *)
(* need magnitudes beyond 1e308 or below 1e-308).                          *)
(***************************************************************************)
EXTENDS Integers, Sequences, FiniteSets, TLC

----------------------------------------------------------------------------
(* Natural numbers of arbitrary size: <<>> is 0, limbs are least           *)
(* significant first, the last limb is never 0.                            *)

LimbBits == 15
Base == 32768
Precision == 53

RECURSIVE Pow2(_)
Pow2(k) == IF k = 0 THEN 1 ELSE 2 * Pow2(k - 1)

RECURSIVE Big(_)
Big(n) == IF n = 0 THEN <<>> ELSE <<n % Base>> \o Big(n \div Base)

RECURSIVE ToInt(_)
ToInt(a) == IF a = <<>> THEN 0 ELSE Head(a) + Base * ToInt(Tail(a))

RECURSIVE Norm(_)
Norm(a) == IF a = <<>> THEN <<>>
           ELSE IF a[Len(a)] = 0 THEN Norm(SubSeq(a, 1, Len(a) - 1))
           ELSE a

Limb(a, i) == IF i <= Len(a) THEN a[i] ELSE 0

RECURSIVE AddC(_, _, _)
AddC(a, b, c) ==
    IF a = <<>> /\ b = <<>> THEN (IF c = 0 THEN <<>> ELSE <<c>>)
    ELSE LET x == Limb(a, 1) + Limb(b, 1) + c
         IN  <<x % Base>> \o AddC(IF a = <<>> THEN a ELSE Tail(a),
                                  IF b = <<>> THEN b ELSE Tail(b),
                                  x \div Base)

BAdd(a, b) == AddC(a, b, 0)

\* a - b - c for a >= b + c, before normalisation
RECURSIVE SubC(_, _, _)
SubC(a, b, c) ==
    IF a = <<>> THEN <<>>
    ELSE LET x == a[1] - Limb(b, 1) - c
         IN  <<IF x < 0 THEN x + Base ELSE x>>
             \o SubC(Tail(a), IF b = <<>> THEN b ELSE Tail(b),
                     IF x < 0 THEN 1 ELSE 0)

BSub(a, b) == Norm(SubC(a, b, 0))

\* -1, 0, 1 as a < b, a = b, a > b
RECURSIVE CmpFrom(_, _, _)
CmpFrom(a, b, i) ==
    IF i = 0 THEN 0
    ELSE IF a[i] < b[i] THEN -1
    ELSE IF a[i] > b[i] THEN 1
    ELSE CmpFrom(a, b, i - 1)

BCmp(a, b) ==
    IF Len(a) < Len(b) THEN -1
    ELSE IF Len(a) > Len(b) THEN 1
    ELSE CmpFrom(a, b, Len(a))

\* a * k + c for 0 <= k < Base
RECURSIVE MulSmallC(_, _, _)
MulSmallC(a, k, c) ==
    IF a = <<>> THEN (IF c = 0 THEN <<>> ELSE <<c>>)
    ELSE LET x == a[1] * k + c
         IN  <<x % Base>> \o MulSmallC(Tail(a), k, x \div Base)

BMulSmall(a, k) == IF k = 0 THEN <<>> ELSE MulSmallC(a, k, 0)

RECURSIVE BMul(_, _)
BMul(a, b) ==
    IF a = <<>> \/ b = <<>> THEN <<>>
    ELSE BAdd(BMulSmall(a, Head(b)),
              LET r == BMul(a, Tail(b))
              IN  IF r = <<>> THEN r ELSE <<0>> \o r)

Zeros(n) == [i \in 1..n |-> 0]

\* a * 2^k
BShl(a, k) ==
    IF a = <<>> THEN <<>>
    ELSE Zeros(k \div LimbBits) \o BMulSmall(a, Pow2(k % LimbBits))

\* floor(a / k) for 0 < k < Base, most significant limb first
RECURSIVE DivSmallFrom(_, _, _, _)
DivSmallFrom(a, k, i, r) ==
    IF i = 0 THEN <<>>
    ELSE LET x == r * Base + a[i]
         IN  DivSmallFrom(a, k, i - 1, x % k) \o <<x \div k>>

BDivSmall(a, k) == Norm(DivSmallFrom(a, k, Len(a), 0))

\* floor(a / 2^k)
BShr(a, k) ==
    LET d == k \div LimbBits
    IN  IF d >= Len(a) THEN <<>>
        ELSE BDivSmall(SubSeq(a, d + 1, Len(a)), Pow2(k % LimbBits))

RECURSIVE BitLenSmall(_)
BitLenSmall(n) == IF n = 0 THEN 0 ELSE 1 + BitLenSmall(n \div 2)

BitLen(a) ==
    IF a = <<>> THEN 0
    ELSE LimbBits * (Len(a) - 1) + BitLenSmall(a[Len(a)])

IsOdd(a) == a # <<>> /\ a[1] % 2 = 1

\* The largest q <= est with d * q <= r
RECURSIVE FixDigit(_, _, _)
FixDigit(r, d, est) ==
    IF BCmp(BMulSmall(d, est), r) > 0 THEN FixDigit(r, d, est - 1) ELSE est

\* Long division in base Base, most significant limb of n first: r is the
\* remainder of the limbs above i, and the top limb of d is at least Base/2,
\* so that the estimate of a quotient limb from the two leading limbs of the
\* running remainder is at most 2 too large.
RECURSIVE DivFrom(_, _, _, _)
DivFrom(n, d, i, r) ==
    IF i = 0 THEN [quo |-> <<>>, rem |-> r]
    ELSE LET r1   == Norm(<<n[i]>> \o r)
             t    == Len(d)
             est  == (Limb(r1, t + 1) * Base + Limb(r1, t)) \div d[t]
             q    == FixDigit(r1, d, IF est >= Base THEN Base - 1 ELSE est)
             rest == DivFrom(n, d, i - 1, BSub(r1, BMulSmall(d, q)))
         IN  [quo |-> rest.quo \o <<q>>, rem |-> rest.rem]

\* quotient and remainder of a by d, d > 0
BDivMod(a, d) ==
    LET s   == LimbBits - BitLenSmall(d[Len(d)])
        n   == BShl(a, s)
        res == DivFrom(n, BShl(d, s), Len(n), <<>>)
    IN  [quo |-> Norm(res.quo), rem |-> BShr(res.rem, s)]

----------------------------------------------------------------------------
(* Python floats.  The value of f is f.sgn * f.man * 2^f.exp; f.man is 0   *)
(* or has exactly Precision bits, so equal values are equal records.       *)

Zero == [sgn |-> 0, man |-> <<>>, exp |-> 0]

Max(i, j) == IF i >= j THEN i ELSE j
Min(i, j) == IF i <= j THEN i ELSE j

\* The float nearest to s * n * 2^e (ties to even), where sticky tells that
\* the exact value lies strictly between n * 2^e and (n + 1) * 2^e.
RoundNE(s, n, sticky, e) ==
    IF n = <<>> THEN Zero
    ELSE LET L == BitLen(n)
         IN  IF L <= Precision
             THEN [sgn |-> s, man |-> BShl(n, Precision - L),
                   exp |-> e - (Precision - L)]
             ELSE LET k    == L - Precision
                      q    == BShr(n, k)
                      r    == BSub(n, BShl(q, k))
                      c    == BCmp(r, BShl(<<1>>, k - 1))
                      up   == c > 0 \/ (c = 0 /\ (sticky \/ IsOdd(q)))
                      q2   == IF up THEN BAdd(q, <<1>>) ELSE q
                  IN  IF BitLen(q2) > Precision
                      THEN [sgn |-> s, man |-> BShr(q2, 1), exp |-> e + k + 1]
                      ELSE [sgn |-> s, man |-> q2, exp |-> e + k]

\* The float nearest to s * n / d, for naturals n > 0 and d > 0: the
\* quotient is taken with at least two bits more than the significand.
FromRat(s, n, d) ==
    LET sh == Max(0, Precision + 2 + BitLen(d) - BitLen(n))
        dm == BDivMod(BShl(n, sh), d)
    IN  RoundNE(s, dm.quo, dm.rem # <<>>, -sh)

Sign(i) == IF i < 0 THEN -1 ELSE IF i > 0 THEN 1 ELSE 0
Abs(i) == IF i < 0 THEN -i ELSE i

\* The float a decimal literal or a number field denotes: num / den.
Float(num, den) ==
    IF num = 0 THEN Zero ELSE FromRat(Sign(num), Big(Abs(num)), Big(den))

FNeg(a) == [a EXCEPT !.sgn = -@]

\* a / b, b # 0
FDiv(a, b) ==
    IF a.sgn = 0 THEN Zero
    ELSE LET r == FromRat(a.sgn * b.sgn, a.man, b.man)
         IN  [r EXCEPT !.exp = @ + a.exp - b.exp]

\* a * b
FMul(a, b) ==
    IF a.sgn = 0 \/ b.sgn = 0 THEN Zero
    ELSE RoundNE(a.sgn * b.sgn, BMul(a.man, b.man), FALSE, a.exp + b.exp)

\* a + b
FAdd(a, b) ==
    IF a.sgn = 0 THEN b
    ELSE IF b.sgn = 0 THEN a
    ELSE LET e  == Min(a.exp, b.exp)
             x  == BShl(a.man, a.exp - e)
             y  == BShl(b.man, b.exp - e)
             c  == BCmp(x, y)
         IN  IF a.sgn = b.sgn THEN RoundNE(a.sgn, BAdd(x, y), FALSE, e)
             ELSE IF c = 0 THEN Zero
             ELSE IF c > 0 THEN RoundNE(a.sgn, BSub(x, y), FALSE, e)
             ELSE RoundNE(b.sgn, BSub(y, x), FALSE, e)

\* a - b
FSub(a, b) == FAdd(a, FNeg(b))

\* -1, 0, 1 as a < b, a == b, a > b
FCmp(a, b) == FSub(a, b).sgn

FAbs(a) == [a EXCEPT !.sgn = Abs(@)]

Range(q) == {q[i] : i \in DOMAIN q}

\* Fmt2 truncating towards zero instead of rounding to nearest
Fmt2_truncating(a) ==
    IF a.sgn = 0 THEN 0
    ELSE LET n == BMulSmall(a.man, 100)
         IN  IF a.exp >= 0 THEN a.sgn * ToInt(BShl(n, a.exp))
             ELSE a.sgn * ToInt(BShr(n, -a.exp))

\* f"{a:.2f}": the decimal with two fractional digits nearest to the exact
\* value of a, ties to even, given as a count of hundredths.
Fmt2(a) ==
    IF a.sgn = 0 THEN 0
    ELSE LET n == BMulSmall(a.man, 100)
         IN  IF a.exp >= 0 THEN a.sgn * ToInt(BShl(n, a.exp))
             ELSE LET k  == -a.exp
                      q  == BShr(n, k)
                      r  == BSub(n, BShl(q, k))
                      c  == BCmp(r, BShl(<<1>>, k - 1))
                      up == c > 0 \/ (c = 0 /\ IsOdd(q))
                  IN  a.sgn * (ToInt(q) + (IF up THEN 1 ELSE 0))

----------------------------------------------------------------------------
(* The program.                                                            *)

One == Float(1, 1)
Hundred == Float(100, 1)

\* Python's None
None == [none |-> TRUE]

\* result subtracting the wrong way round
result_swapped(initial_mass, final_mass) ==
    [ret |-> <<final_mass, FSub(initial_mass, final_mass)>>, st |-> <<>>,
     divided |-> TRUE]

\* Lines 31-35: the sugar to add from the general balance, and the returned
\* pair.
result(initial_mass, final_mass) ==
    [ret |-> <<final_mass, FSub(final_mass, initial_mass)>>, st |-> <<>>,
     divided |-> TRUE]

\* mass_balance multiplying by the final water fraction instead of dividing
mass_balance_times(initial_mass, initial_water_fraction, final_water_fraction) ==
    IF final_water_fraction = Zero
    THEN [ret |-> <<None, None>>, st |-> <<"error">>, divided |-> FALSE]
    ELSE result(initial_mass,
                FMul(FMul(initial_mass, initial_water_fraction),
                     final_water_fraction))

\* mass_balance adding the initial water fraction to the mass instead of
\* multiplying by it
mass_balance_plus(initial_mass, initial_water_fraction, final_water_fraction) ==
    IF final_water_fraction = Zero
    THEN [ret |-> <<None, None>>, st |-> <<"error">>, divided |-> FALSE]
    ELSE result(initial_mass,
                FDiv(FAdd(initial_mass, initial_water_fraction),
                     final_water_fraction))

\* mass_balance returning zeros at 100 % instead of (None, None)
mass_balance_zeros(initial_mass, initial_water_fraction, final_water_fraction) ==
    IF final_water_fraction = Zero
    THEN [ret |-> <<Zero, Zero>>, st |-> <<"error">>, divided |-> FALSE]
    ELSE result(initial_mass,
                FDiv(FMul(initial_mass, initial_water_fraction),
                     final_water_fraction))

\* Lines 20-35, given the two water fractions: the guard against 100 %,
\* which shows st.error and returns (None, None), and else the final mass
\* from the water balance.
mass_balance(initial_mass, initial_water_fraction, final_water_fraction) ==
    IF final_water_fraction = Zero
    THEN [ret |-> <<None, None>>, st |-> <<"error">>, divided |-> FALSE]
    ELSE result(initial_mass,
                FDiv(FMul(initial_mass, initial_water_fraction),
                     final_water_fraction))

\* calculate_mass_balance: ret is the returned pair, st the Streamlit calls
\* the function makes, divided whether the division of line 29 was executed.
calculate_mass_balance(initial_mass, initial_concentration, final_concentration) ==
    mass_balance(initial_mass,
                 FSub(One, FDiv(initial_concentration, Hundred)),
                 FSub(One, FDiv(final_concentration, Hundred)))

----------------------------------------------------------------------------
(* State.  The number fields hold floats; what column 2 shows after the    *)
(* last run of the script is kept element by element.  call records the    *)
(* invocation of calculate_mass_balance: its arguments, whether it has     *)
(* returned, and what it returned.                                         *)

VARIABLES m1_input, x1_input, x3_input, submit_button,
          messages, success, metric1, metric2, expander,
          m3_calculada, m2_calculado, call

vars == <<m1_input, x1_input, x3_input, submit_button,
          messages, success, metric1, metric2, expander,
          m3_calculada, m2_calculado, call>>

\* a name the run has not bound
Unset == [unset |-> TRUE]
NoCall == [pc |-> "none"]

\* Bounds of the explored inputs, in the fields' steps: masses in halves of
\* a kilogram (step=0.5), concentrations in tenths of a percent (step=0.1).
MaxMassHalves == 1
MaxConcSteps == 1
MaxArgMassHalves == 3
MaxArgConcSteps == 4

\* m1_input: min_value=0.0, no maximum; 100 halves is the default 50.0
FormMasses ==
    {Float(k, 2) : k \in (0..MaxMassHalves) \cup {100}}

\* FormConcs with max_value=100.0
FormConcs_to100 ==
    {Float(k, 10) : k \in {111 * i : i \in 0..MaxConcSteps}
                          \cup {44, 70, 100, 999, 1000}}

\* x1_input, x3_input: min_value=0.0, max_value=99.9; 70 and 100 tenths are
\* the defaults 7.0 and 10.0
FormConcs ==
    {Float(k, 10) : k \in {111 * i : i \in 0..MaxConcSteps} \cup {44, 70, 100, 999}}

\* what a run shows that gets to none of the branches
nothing ==
    [messages |-> <<>>, success |-> <<>>, metric1 |-> <<>>, metric2 |-> <<>>,
     expander |-> <<>>, m3_calculada |-> Unset, m2_calculado |-> Unset,
     call |-> NoCall]

\* Lines 85-110: what is shown once calculate_mass_balance has returned r
\* (r.st holds what the function itself has shown meanwhile).
results(m1, x1, x3, r) ==
    IF r.ret[1] # None
    THEN [messages |-> r.st \o <<"success">>,
          success |-> <<Fmt2(r.ret[2])>>,
          metric1 |-> <<Fmt2(r.ret[1])>>,
          metric2 |-> <<Fmt2(r.ret[2])>>,
          expander |-> <<Fmt2(FSub(One, FDiv(x1, Hundred))),
                         Fmt2(FSub(One, FDiv(x3, Hundred))),
                         Fmt2(r.ret[1]), Fmt2(r.ret[2])>>,
          m3_calculada |-> r.ret[1], m2_calculado |-> r.ret[2],
          call |-> [initial_mass |-> m1, initial_concentration |-> x1,
                    final_concentration |-> x3,
                    ret |-> r.ret, divided |-> r.divided,
                    pc |-> "returned"]]
    ELSE [messages |-> r.st,
          success |-> <<>>, metric1 |-> <<>>, metric2 |-> <<>>,
          expander |-> <<>>,
          m3_calculada |-> r.ret[1], m2_calculado |-> r.ret[2],
          call |-> [initial_mass |-> m1, initial_concentration |-> x1,
                    final_concentration |-> x3,
                    ret |-> r.ret, divided |-> r.divided,
                    pc |-> "returned"]]

\* col2 warning only when the final concentration is strictly lower
col2_strict(m1, x1, x3, sb) ==
    IF ~sb THEN [nothing EXCEPT !.messages = <<"info">>]
    ELSE IF FCmp(x3, x1) < 0
    THEN [nothing EXCEPT !.messages = <<"warning">>]
    ELSE results(m1, x1, x3, calculate_mass_balance(m1, x1, x3))

\* The block under col2: what one run of the script shows for the field
\* values and the state of the submit button.
col2(m1, x1, x3, sb) ==
    IF ~sb THEN [nothing EXCEPT !.messages = <<"info">>]
    ELSE IF FCmp(x3, x1) <= 0
    THEN [nothing EXCEPT !.messages = <<"warning">>]
    ELSE results(m1, x1, x3, calculate_mass_balance(m1, x1, x3))

Show(m1, x1, x3, sb) ==
    \E out \in {col2(m1, x1, x3, sb)} :
        /\ m1_input' = m1
        /\ x1_input' = x1
        /\ x3_input' = x3
        /\ submit_button' = sb
        /\ messages' = out.messages
        /\ success' = out.success
        /\ metric1' = out.metric1
        /\ metric2' = out.metric2
        /\ expander' = out.expander
        /\ m3_calculada' = out.m3_calculada
        /\ m2_calculado' = out.m2_calculado
        /\ call' = out.call

\* The first run of a session: the fields hold their defaults (value=50.0,
\* value=7.0, value=10.0) and the button has not been pressed.
Init ==
    \E out \in {col2(Float(50, 1), Float(7, 1), Float(10, 1), FALSE)} :
        /\ m1_input = Float(50, 1)
        /\ x1_input = Float(7, 1)
        /\ x3_input = Float(10, 1)
        /\ submit_button = FALSE
        /\ messages = out.messages
        /\ success = out.success
        /\ metric1 = out.metric1
        /\ metric2 = out.metric2
        /\ expander = out.expander
        /\ m3_calculada = out.m3_calculada
        /\ m2_calculado = out.m2_calculado
        /\ call = out.call

\* The user fills in the form and presses "Calcular Ahora": the script runs
\* with the submitted values and submit_button True.
Submit(m1, x1, x3) == Show(m1, x1, x3, TRUE)

\* The page is loaded anew: a new session, the script runs with the
\* defaults and the button not pressed.
Reload == Show(Float(50, 1), Float(7, 1), Float(10, 1), FALSE)

Next ==
    \/ \E m1 \in FormMasses, x1 \in FormConcs, x3 \in FormConcs :
           Submit(m1, x1, x3)
    \/ Reload

Spec == Init /\ [][Next]_vars

----------------------------------------------------------------------------
(* calculate_mass_balance called on its own, with arguments that need not  *)
(* come from the form: InitCalc draws the arguments, CallCalculate runs    *)
(* the function to its return.  messages collects the Streamlit calls made *)
(* meanwhile; nothing else has been shown.                                 *)

ArgMasses ==
    {Float(k, 2) : k \in (-1..MaxArgMassHalves) \cup {100, 200}}

ArgConcs ==
    {Float(k, 10) : k \in {111 * i : i \in 0..MaxArgConcSteps}
                          \cup {-5, 11, 44, 70, 100, 525, 999, 1000, 1001}}

InitCalc ==
    /\ m1_input = Float(50, 1)
    /\ x1_input = Float(7, 1)
    /\ x3_input = Float(10, 1)
    /\ submit_button = FALSE
    /\ messages = <<>>
    /\ success = <<>>
    /\ metric1 = <<>>
    /\ metric2 = <<>>
    /\ expander = <<>>
    /\ m3_calculada = Unset
    /\ m2_calculado = Unset
    /\ \E m \in ArgMasses, x1 \in ArgConcs, x3 \in ArgConcs :
           call = [initial_mass |-> m, initial_concentration |-> x1,
                   final_concentration |-> x3,
                   ret |-> <<Unset, Unset>>, divided |-> FALSE,
                   pc |-> "called"]

CallCalculate ==
    /\ call.pc = "called"
    /\ \E r \in {calculate_mass_balance(call.initial_mass,
                                        call.initial_concentration,
                                        call.final_concentration)} :
           /\ call' = [call EXCEPT !.ret = r.ret, !.divided = r.divided,
                                   !.pc = "returned"]
           /\ messages' = messages \o r.st
    /\ UNCHANGED <<m1_input, x1_input, x3_input, submit_button, success,
                   metric1, metric2, expander, m3_calculada, m2_calculado>>

NextCalc == CallCalculate

SpecCalc == InitCalc /\ [][NextCalc]_vars

----------------------------------------------------------------------------
(* Properties.                                                             *)

FLt(a, b) == FCmp(a, b) < 0
FLe(a, b) == FCmp(a, b) <= 0

Returned == call.pc = "returned"
Numeric == Returned /\ call.ret[1] # None /\ call.ret[2] # None

InDomain(x) == FLe(Zero, x) /\ FLt(x, Hundred)

ValidArgs ==
    /\ FLe(Zero, call.initial_mass)
    /\ InDomain(call.initial_concentration)
    /\ InDomain(call.final_concentration)

Raises == FLt(call.initial_concentration, call.final_concentration)

\* the two sides of the water balance, computed in floats as written
WaterIn ==
    FMul(call.initial_mass,
         FSub(One, FDiv(call.initial_concentration, Hundred)))
WaterOut ==
    FMul(call.ret[1], FSub(One, FDiv(call.final_concentration, Hundred)))

\* the left side of the total balance
TotalIn == FAdd(call.initial_mass, call.ret[2])

Tolerance == Float(1, 1000000000)

FMaxAbs(a, b) == IF FLe(FAbs(a), FAbs(b)) THEN FAbs(b) ELSE FAbs(a)

\* |a - b| <= 1e-9 * max(|a|, |b|)
Close(a, b) == FLe(FAbs(FSub(a, b)), FMul(Tolerance, FMaxAbs(a, b)))

\* C1 as stated: for valid arguments with initialConcentration <
\* finalConcentration < 100 the function returns finalMass > initialMass
\* and sugarMass > 0.
C1_Original ==
    (Returned /\ ValidArgs /\ Raises) =>
        /\ Numeric
        /\ FLt(call.initial_mass, call.ret[1])
        /\ FLt(Zero, call.ret[2])

\* C1 amended: the same for initialMass > 0 (at initialMass = 0 both
\* results are 0).
C1_PositiveMass ==
    (Returned /\ ValidArgs /\ Raises /\ FLt(Zero, call.initial_mass)) =>
        /\ Numeric
        /\ FLt(call.initial_mass, call.ret[1])
        /\ FLt(Zero, call.ret[2])

C1_Witness ==
    /\ Returned /\ ValidArgs /\ Raises
    /\ call.initial_mass = Float(1, 2)
    /\ call.final_concentration = Float(999, 10)
    /\ FLt(call.initial_mass, call.ret[1])

\* C2 as stated: whenever a numeric result is returned, the water mass
\* before, initialMass * (1 - initialConcentration/100), equals the water
\* mass after, finalMass * (1 - finalConcentration/100).
C2_Original == Numeric => WaterIn = WaterOut

\* C2 amended: whenever a numeric result is returned, the two water masses
\* agree within the relative tolerance 1e-9.
C2_WaterWithinTolerance == Numeric => Close(WaterIn, WaterOut)

C2_Witness == Numeric /\ WaterIn # WaterOut /\ Close(WaterIn, WaterOut)

C4_InvalidConcentration ==
    (Returned /\ call.final_concentration = Hundred) =>
        /\ call.ret = <<None, None>>
        /\ ~call.divided

C4_Witness ==
    /\ Returned
    /\ call.final_concentration = Hundred
    /\ FLt(call.initial_mass, Zero)
    /\ call.initial_concentration = Float(1001, 10)
    /\ call.ret = <<None, None>>

\* C5: a submission with finalConcentration <= initialConcentration shows
\* the warning, does not call calculate_mass_balance and shows no number.
C5_WarningOnly ==
    (submit_button /\ FLe(x3_input, x1_input)) =>
        /\ messages = <<"warning">>
        /\ call = NoCall
        /\ success = <<>> /\ metric1 = <<>> /\ metric2 = <<>>
        /\ expander = <<>>

C5_Witness ==
    /\ submit_button
    /\ x3_input = x1_input
    /\ x1_input = Float(999, 10)
    /\ messages = <<"warning">>

\* C6: called with initialMass < 0 or with a concentration outside
\* [0, 100), the function returns the failure outcome instead of a pair of
\* numbers.
C6_GuardsPreconditions ==
    (Returned /\ ~ValidArgs) => call.ret = <<None, None>>

\* C7: a call of calculate_mass_balance changes nothing but its return
\* value; in particular it shows no message.
C7_Pure ==
    [][UNCHANGED <<m1_input, x1_input, x3_input, submit_button, messages,
                   success, metric1, metric2, expander, m3_calculada,
                   m2_calculado>>]_vars

\* C8: with initialMass == 0 and both concentrations in [0, 100) the
\* function returns finalMass == 0 and sugarMass == 0.
C8_ZeroMass ==
    (Returned /\ ValidArgs /\ call.initial_mass = Zero) =>
        call.ret = <<Zero, Zero>>

C8_Witness ==
    /\ Returned
    /\ call.initial_mass = Zero
    /\ call.initial_concentration = Float(999, 10)
    /\ call.final_concentration = Float(7, 1)
    /\ call.ret = <<Zero, Zero>>

Scenario ==
    /\ submit_button
    /\ m1_input = Float(50, 1)
    /\ x1_input = Float(7, 1)
    /\ x3_input = Float(10, 1)

\* C9: after a successful submission the page shows the returned values
\* formatted with two decimals while the values themselves are not
\* rounded; for 50 kg at 7 % raised to 10 % it shows 51.67 kg and 1.67 kg.
C9_RoundedDisplay ==
    /\ "success" \in Range(messages) =>
           /\ metric1 = <<Fmt2(call.ret[1])>>
           /\ metric2 = <<Fmt2(call.ret[2])>>
           /\ success = metric2
           /\ m3_calculada = call.ret[1]
           /\ m2_calculado = call.ret[2]
    /\ Scenario =>
           /\ metric1 = <<5167>>
           /\ metric2 = <<167>>
           /\ success = <<167>>
           /\ FLt(Float(51666, 1000), m3_calculada)
           /\ FLt(m3_calculada, Float(51667, 1000))
           /\ FLt(Float(1666, 1000), m2_calculado)
           /\ FLt(m2_calculado, Float(1667, 1000))

C9_Witness == Scenario /\ metric1 = <<5167>> /\ metric2 = <<167>>

\* C10: every submission from the form shows exactly one of the warning
\* and the success message, and never reaches the error branch of
\* calculate_mass_balance.
C10_WarningOrSuccess ==
    submit_button =>
        /\ messages \in {<<"warning">>, <<"success">>}
        /\ call # NoCall => call.ret[1] # None /\ call.divided

C10_Witness ==
    /\ submit_button
    /\ x3_input = Float(999, 10)
    /\ x1_input = Float(70, 10)
    /\ messages = <<"success">>

====
